---- MODULE Spec2Model ----
(***************************************************************************)
(* Disk-head scheduling simulator (app.py): the four scheduling functions  *)
(* fcfs, sstf, scan, cscan and the "Run Simulation" handler that parses    *)
(* the request text, calls the selected algorithms in turn, prints total   *)
(* and average seek time and builds the summary table.                     *)
(***************************************************************************)
EXTENDS Integers, Sequences, FiniteSets, Bags, TLC

(***************************************************************************)
(* Bounds of the model and constants of the program.                       *)
(***************************************************************************)
\* longest request text, in comma-separated tokens
MaxLen == 3
\* largest low cylinder a request or the head names
MaxCyl == 2
\* requests may be negative integers down to -MaxNeg (int() accepts them)
MaxNeg == 1
\* number_input "Initial Head Position": min_value and default value
MinHead == 0
DefaultHead == 50
\* number_input "Disk Size": min_value and default value
MinDiskSize == 50
DefaultDiskSize == 200

ALGOS == <<"FCFS", "SSTF", "SCAN", "C-SCAN">>
Directions == {"left", "right"}

\* default text of the request text area, after split(",") and strip()
DefaultRequests == <<82, 170, 43, 140, 24, 16, 190>>

\* integer values a request token takes in the model: low cylinders, negative
\* numbers, and one cylinder at the smallest disk size (on or past the boundary)
ReqVals == ((0 - MaxNeg)..MaxCyl) \cup {MinDiskSize}
Heads == MinHead..MaxCyl
DiskSizes == {MinDiskSize, MinDiskSize + 1}

\* a token of requests_str.split(","): an integer literal, blank text
\* (dropped by "if x.strip()"), or text int() rejects
IntTok(n) == [kind |-> "int", val |-> n]
BlankTok == [kind |-> "blank", val |-> 0]
JunkTok == [kind |-> "junk", val |-> 0]
Tokens == {IntTok(n) : n \in ReqVals} \cup {BlankTok, JunkTok}

RECURSIVE SeqsUpTo(_, _)
SeqsUpTo(S, n) ==
    IF n = 0 THEN {<<>>}
    ELSE LET shorter == SeqsUpTo(S, n - 1)
         IN shorter \cup {Append(s, x) : s \in {t \in shorter : Len(t) = n - 1}, x \in S}

\* selections of the multiselect the model runs: none, each algorithm alone,
\* and the default (all four, in option order)
AlgoSelections == {<<>>, ALGOS} \cup {<<ALGOS[k]>> : k \in 1..Len(ALGOS)}

(***************************************************************************)
(* Python builtins used by the algorithms.                                 *)
(***************************************************************************)
AbsNoSign(x) == x
Abs(x) == IF x < 0 THEN 0 - x ELSE x

RECURSIVE Reverse(_)
Reverse(s) == IF s = <<>> THEN <<>> ELSE Append(Reverse(Tail(s)), Head(s))

\* list.sort(): ascending
RECURSIVE Insert(_, _)
Insert(x, s) ==
    IF s = <<>> THEN <<x>>
    ELSE IF x <= Head(s) THEN <<x>> \o s
    ELSE <<Head(s)>> \o Insert(x, Tail(s))

RECURSIVE Sort(_)
Sort(s) == IF s = <<>> THEN <<>> ELSE Insert(Head(s), Sort(Tail(s)))

\* list.remove(x): drops the first occurrence of x
RemoveAll(s, x) == SelectSeq(s, LAMBDA y : y # x)
RECURSIVE Remove(_, _)
Remove(s, x) ==
    IF s = <<>> THEN <<>>
    ELSE IF Head(s) = x THEN Tail(s)
    ELSE <<Head(s)>> \o Remove(Tail(s), x)

\* min(pending, key=lambda x: abs(x - curr)): the first element with the least key
RECURSIVE MinFrom(_, _, _)
MinFrom(best, s, c) ==
    IF s = <<>> THEN best
    ELSE MinFrom(IF Abs(Head(s) - c) < Abs(best - c) THEN Head(s) ELSE best, Tail(s), c)

RECURSIVE MinFromLast(_, _, _)
MinFromLast(best, s, c) ==
    IF s = <<>> THEN best
    ELSE MinFromLast(IF Abs(Head(s) - c) <= Abs(best - c) THEN Head(s) ELSE best, Tail(s), c)

NearestFirstInQueue(p, c) == Head(p)
NearestLastFound(p, c) == MinFromLast(Head(p), Tail(p), c)
Nearest(p, c) == MinFrom(Head(p), Tail(p), c)

(***************************************************************************)
(* fcfs                                                                    *)
(***************************************************************************)
RECURSIVE FcfsDistance(_, _, _)
FcfsDistance(order, hd, i) ==
    IF i > Len(order) THEN 0
    ELSE Abs(order[i] - (IF i = 1 THEN hd ELSE order[i - 1]))
         + FcfsDistance(order, hd, i + 1)

FcfsNoFirstHop(reqs, hd) ==
    [order |-> reqs, total |-> FcfsDistance(reqs, hd, 2)]
Fcfs(reqs, hd) ==
    [order |-> reqs, total |-> FcfsDistance(reqs, hd, 1)]

(***************************************************************************)
(* scan and cscan                                                          *)
(***************************************************************************)
Left(reqs, hd) == Sort(SelectSeq(reqs, LAMBDA r : r < hd))
Right(reqs, hd) == Sort(SelectSeq(reqs, LAMBDA r : r >= hd))

\* for r in rs: total += abs(curr - r); seek_sequence.append(r); curr = r
RECURSIVE Visit(_, _)
Visit(st, rs) ==
    IF rs = <<>> THEN st
    ELSE Visit([order |-> Append(st.order, Head(rs)),
                total |-> st.total + Abs(st.curr - Head(rs)),
                curr |-> Head(rs)], Tail(rs))

Start(hd) == [order |-> <<>>, total |-> 0, curr |-> hd]

ScanNoHop(reqs, hd, dir, size) ==
    LET left == Left(reqs, hd)
        right == Right(reqs, hd)
    IN IF dir = "left"
       THEN LET s1 == Visit(Start(hd), Reverse(left))
                s2 == [s1 EXCEPT !.curr = 0]
                s3 == Visit(s2, right)
            IN [order |-> s3.order, total |-> s3.total]
       ELSE LET s1 == Visit(Start(hd), right)
                s2 == [s1 EXCEPT !.curr = size - 1]
                s3 == Visit(s2, Reverse(left))
            IN [order |-> s3.order, total |-> s3.total]

Scan(reqs, hd, dir, size) ==
    LET left == Left(reqs, hd)
        right == Right(reqs, hd)
    IN IF dir = "left"
       THEN LET s1 == Visit(Start(hd), Reverse(left))
                s2 == [s1 EXCEPT !.total = s1.total + s1.curr, !.curr = 0]
                s3 == Visit(s2, right)
            IN [order |-> s3.order, total |-> s3.total]
       ELSE LET s1 == Visit(Start(hd), right)
                s2 == [s1 EXCEPT !.total = s1.total + Abs((size - 1) - s1.curr),
                                 !.curr = size - 1]
                s3 == Visit(s2, Reverse(left))
            IN [order |-> s3.order, total |-> s3.total]

CscanAsScan(reqs, hd, dir, size) == Scan(reqs, hd, dir, size)

Cscan(reqs, hd, dir, size) ==
    LET left == Left(reqs, hd)
        right == Right(reqs, hd)
    IN IF dir = "left"
       THEN LET s1 == Visit(Start(hd), Reverse(left))
                s2 == [s1 EXCEPT !.total = s1.total + s1.curr, !.curr = size - 1]
                s3 == Visit(s2, Reverse(right))
            IN [order |-> s3.order, total |-> s3.total]
       ELSE LET s1 == Visit(Start(hd), right)
                s2 == [s1 EXCEPT !.total = s1.total + Abs((size - 1) - s1.curr),
                                 !.curr = 0]
                s3 == Visit(s2, left)
            IN [order |-> s3.order, total |-> s3.total]

(***************************************************************************)
(* State: the widgets' values, and the Run Simulation handler's locals.    *)
(***************************************************************************)
VARIABLES
    requests_str,   \* text area, as the tokens of split(",")
    head,           \* number_input "Initial Head Position"
    direction,      \* selectbox "Direction"
    disk_size,      \* number_input "Disk Size"
    algos,          \* multiselect "Algorithms to Run"
    pc,             \* idle | loop | sstf | report | done | error
    requests,       \* the parsed request queue
    i,              \* position of the for loop in algos (1-based)
    order, total,   \* result of the algorithm just called
    pending, curr, nearest,   \* locals of sstf
    summary         \* rows of the summary table

vars == <<requests_str, head, direction, disk_size, algos, pc, requests, i,
          order, total, pending, curr, nearest, summary>>

inputs == <<requests_str, head, direction, disk_size, algos>>
sstfLocals == <<pending, curr, nearest>>

\* the widgets as the page first renders them
DefaultInput ==
    /\ requests_str = [k \in 1..Len(DefaultRequests) |-> IntTok(DefaultRequests[k])]
    /\ head = DefaultHead
    /\ direction = "left"
    /\ disk_size = DefaultDiskSize
    /\ algos = ALGOS

\* the widgets after the user edited them, within the bounds of the model
EditedInput ==
    /\ requests_str \in SeqsUpTo(Tokens, MaxLen)
    /\ head \in Heads
    /\ direction \in Directions
    /\ disk_size \in DiskSizes
    /\ algos \in AlgoSelections

Init ==
    /\ DefaultInput \/ EditedInput
    /\ pc = "idle"
    /\ requests = <<>>
    /\ i = 1
    /\ order = <<>>
    /\ total = 0
    /\ pending = <<>>
    /\ curr = 0
    /\ nearest = 0
    /\ summary = <<>>

\* [int(x.strip()) for x in requests_str.split(",") if x.strip()]
HasJunk(toks) == \E k \in 1..Len(toks) : toks[k].kind = "junk"
RECURSIVE ParseRequests(_)
ParseRequests(toks) ==
    IF toks = <<>> THEN <<>>
    ELSE IF Head(toks).kind = "blank" THEN ParseRequests(Tail(toks))
    ELSE <<Head(toks).val>> \o ParseRequests(Tail(toks))

\* the button is clicked and the text parses: the loop over algos begins
RunSimulation ==
    /\ pc = "idle"
    /\ ~HasJunk(requests_str)
    /\ requests' = ParseRequests(requests_str)
    /\ summary' = <<>>
    /\ i' = 1
    /\ pc' = "loop"
    /\ UNCHANGED <<inputs, order, total, sstfLocals>>

\* the button is clicked and int() raises ValueError: st.error
RunSimulationBadText ==
    /\ pc = "idle"
    /\ HasJunk(requests_str)
    /\ pc' = "error"
    /\ UNCHANGED <<inputs, requests, i, order, total, sstfLocals, summary>>

InLoop(name) == pc = "loop" /\ i <= Len(algos) /\ algos[i] = name

CallFcfs ==
    /\ InLoop("FCFS")
    /\ order' = Fcfs(requests, head).order
    /\ total' = Fcfs(requests, head).total
    /\ pc' = "report"
    /\ UNCHANGED <<inputs, requests, i, sstfLocals, summary>>

CallSstf ==
    /\ InLoop("SSTF")
    /\ pending' = requests
    /\ order' = <<>>
    /\ total' = 0
    /\ curr' = head
    /\ pc' = "sstf"
    /\ UNCHANGED <<inputs, requests, i, nearest, summary>>

\* one iteration of "while pending"
SstfStep ==
    /\ pc = "sstf"
    /\ pending # <<>>
    /\ nearest' = Nearest(pending, curr)
    /\ total' = total + Abs(nearest' - curr)
    /\ order' = Append(order, nearest')
    /\ curr' = nearest'
    /\ pending' = Remove(pending, nearest')
    /\ UNCHANGED <<inputs, pc, requests, i, summary>>

SstfReturn ==
    /\ pc = "sstf"
    /\ pending = <<>>
    /\ pc' = "report"
    /\ UNCHANGED <<inputs, requests, i, order, total, sstfLocals, summary>>

CallScan ==
    /\ InLoop("SCAN")
    /\ order' = Scan(requests, head, direction, disk_size).order
    /\ total' = Scan(requests, head, direction, disk_size).total
    /\ pc' = "report"
    /\ UNCHANGED <<inputs, requests, i, sstfLocals, summary>>

CallCscan ==
    /\ InLoop("C-SCAN")
    /\ order' = Cscan(requests, head, direction, disk_size).order
    /\ total' = Cscan(requests, head, direction, disk_size).total
    /\ pc' = "report"
    /\ UNCHANGED <<inputs, requests, i, sstfLocals, summary>>

\* order and total are written, then total / len(requests) is formatted, the
\* chart is drawn and the row is appended to summary
Report ==
    /\ pc = "report"
    /\ Len(requests) # 0
    /\ summary' = Append(summary, [Algorithm |-> algos[i],
                                   Total |-> total,
                                   Average |-> <<total, Len(requests)>>])
    /\ i' = i + 1
    /\ pc' = "loop"
    /\ UNCHANGED <<inputs, requests, order, total, sstfLocals>>

\* total / len(requests) raises ZeroDivisionError: except shows st.error
ReportDivisionByZero ==
    /\ pc = "report"
    /\ Len(requests) = 0
    /\ pc' = "error"
    /\ UNCHANGED <<inputs, requests, i, order, total, sstfLocals, summary>>

\* the loop is over: the summary table is shown
ShowSummary ==
    /\ pc = "loop"
    /\ i > Len(algos)
    /\ pc' = "done"
    /\ UNCHANGED <<inputs, requests, i, order, total, sstfLocals, summary>>

Next ==
    \/ RunSimulation
    \/ RunSimulationBadText
    \/ CallFcfs
    \/ CallSstf
    \/ SstfStep
    \/ SstfReturn
    \/ CallScan
    \/ CallCscan
    \/ Report
    \/ ReportDivisionByZero
    \/ ShowSummary

Spec == Init /\ [][Next]_vars

(***************************************************************************)
(* Vocabulary of the properties, defined apart from the algorithms.        *)
(***************************************************************************)
Dist(a, b) == IF a >= b THEN a - b ELSE b - a

\* length of the path p[1] -> p[2] -> ... -> p[Len(p)]
RECURSIVE PathLength(_)
PathLength(p) ==
    IF Len(p) <= 1 THEN 0
    ELSE Dist(p[1], p[2]) + PathLength(Tail(p))

Occurrences(s, x) == Cardinality({k \in 1..Len(s) : s[k] = x})
Values(s) == {s[k] : k \in 1..Len(s)}
SameMultiset(s, t) ==
    /\ Len(s) = Len(t)
    /\ \A x \in Values(s) \cup Values(t) : Occurrences(s, x) = Occurrences(t, x)

Ascending(s) == \A k \in 1..(Len(s) - 1) : s[k] <= s[k + 1]
Descending(s) == \A k \in 1..(Len(s) - 1) : s[k] >= s[k + 1]
AllBelow(s, h) == \A k \in 1..Len(s) : s[k] < h
AllFrom(s, h) == \A k \in 1..Len(s) : s[k] >= h
NumBelow(s, h) == Cardinality({k \in 1..Len(s) : s[k] < h})
NumFrom(s, h) == Cardinality({k \in 1..Len(s) : s[k] >= h})
Rest(s, n) == SubSeq(s, n + 1, Len(s))

\* the algorithm algos[i] has just returned order, total
Returned(name) == pc = "report" /\ algos[i] = name

\* SstfStep has just run: pc stays "sstf" from one iteration to the next
SstfIteration == pc = "sstf" /\ pc' = "sstf"
\* the pending requests nearest to curr, and whether they differ in value
MinDist(p, c) == CHOOSE d \in {Dist(p[k], c) : k \in 1..Len(p)} :
                    \A j \in 1..Len(p) : d <= Dist(p[j], c)
Candidates(p, c) == {p[k] : k \in {j \in 1..Len(p) : Dist(p[j], c) = MinDist(p, c)}}
Lowest(S) == CHOOSE x \in S : \A y \in S : x <= y
\* the position the head left in the iteration that chose `nearest`
Previous == IF Len(order) >= 2 THEN order[Len(order) - 1] ELSE head

(***************************************************************************)
(* C1: after each of fcfs, sstf, scan and cscan returns, order holds       *)
(* exactly the multiset of the request queue: every request once,          *)
(* duplicates as separate entries, no boundary or wrap cylinder added.     *)
(***************************************************************************)
C1_Permutation == pc = "report" => SameMultiset(order, requests)

C1_Witness ==
    /\ Returned("SSTF")
    /\ Len(order) >= 3
    /\ \E j, k \in 1..Len(requests) : j # k /\ requests[j] = requests[k]

(***************************************************************************)
(* C2: every algorithm called with an empty request queue returns          *)
(* order = [] and total = 0, whatever head, direction and disk size.       *)
(***************************************************************************)
C2_EmptyQueueZero ==
    (pc = "report" /\ requests = <<>>) => (order = <<>> /\ total = 0)

(***************************************************************************)
(* C3 as claimed: when pending requests of different values tie for the    *)
(* least distance to the current position, sstf selects the lowest-valued  *)
(* of them.                                                                *)
(***************************************************************************)
C3_LowestOnTie ==
    [][(SstfIteration /\ Cardinality(Candidates(pending, curr)) >= 2)
         => nearest' = Lowest(Candidates(pending, curr))]_vars

(***************************************************************************)
(* C3 as amended: when pending requests tie for the least distance to the  *)
(* current position, sstf selects the one that comes first in the pending  *)
(* queue (input order, serviced entries removed).                          *)
(***************************************************************************)
C3_FirstOnTie ==
    [][(SstfIteration /\ Cardinality(Candidates(pending, curr)) >= 2)
         => \E k \in 1..Len(pending) :
               /\ nearest' = pending[k]
               /\ Dist(pending[k], curr) = MinDist(pending, curr)
               /\ \A j \in 1..(k - 1) : Dist(pending[j], curr) > MinDist(pending, curr)]_vars

\* a tie was just resolved in favour of the higher value
C3_Witness ==
    /\ pc = "sstf"
    /\ Len(order) >= 1
    /\ \E k \in 1..Len(pending) :
          /\ pending[k] < nearest
          /\ Dist(pending[k], Previous) = Dist(nearest, Previous)

(***************************************************************************)
(* C4: for cscan with direction left, total is the path head -> requests   *)
(* below head in descending order -> 0, plus the repositioning 0 ->        *)
(* disk_size-1 (disk_size - 1 cylinders), plus the path from disk_size-1   *)
(* through the requests at or above head in descending order.              *)
(***************************************************************************)
C4_WrapCharged ==
    (Returned("C-SCAN") /\ direction = "left") =>
        LET n == NumBelow(requests, head)
        IN total = PathLength(<<head>> \o SubSeq(order, 1, n) \o <<0>>)
                   + (disk_size - 1)
                   + PathLength(<<disk_size - 1>> \o Rest(order, n))

(***************************************************************************)
(* C5: for scan with non-negative head and requests in 0..disk_size-1,     *)
(* total is the length of head -> first leg -> boundary -> second leg:     *)
(* left: requests < head descending, cylinder 0, requests >= head          *)
(* ascending; right: requests >= head ascending, disk_size-1, requests     *)
(* < head descending.  The boundary hop is charged also when a leg is      *)
(* empty.                                                                  *)
(***************************************************************************)
InRange == head >= 0 /\ \A k \in 1..Len(requests) :
                           requests[k] >= 0 /\ requests[k] < disk_size

C5_ScanTotal ==
    (Returned("SCAN") /\ InRange) =>
        LET n == IF direction = "left" THEN NumBelow(requests, head)
                 ELSE NumFrom(requests, head)
            first == SubSeq(order, 1, n)
            second == Rest(order, n)
            boundary == IF direction = "left" THEN 0 ELSE disk_size - 1
        IN /\ Len(order) = Len(requests)
           /\ direction = "left" =>
                 /\ Descending(first) /\ AllBelow(first, head)
                 /\ Ascending(second) /\ AllFrom(second, head)
           /\ direction = "right" =>
                 /\ Ascending(first) /\ AllFrom(first, head)
                 /\ Descending(second) /\ AllBelow(second, head)
           /\ total = PathLength(<<head>> \o first \o <<boundary>> \o second)

\* the first leg is empty and the hop to cylinder 0 is still charged
C5_Witness ==
    /\ Returned("SCAN") /\ InRange
    /\ direction = "left"
    /\ requests # <<>>
    /\ NumBelow(requests, head) = 0
    /\ head > 0
    /\ total = head + PathLength(<<0>> \o order)

(***************************************************************************)
(* C6: in every iteration of sstf the request chosen is at a distance from *)
(* the current position no greater than that of any pending request; the   *)
(* current position starts at head and moves to each chosen request.       *)
(***************************************************************************)
C6_Greedy ==
    [][SstfIteration =>
          /\ curr = (IF order = <<>> THEN head ELSE order[Len(order)])
          /\ \E k \in 1..Len(pending) : pending[k] = nearest'
          /\ \A k \in 1..Len(pending) : Dist(nearest', curr) <= Dist(pending[k], curr)
          /\ curr' = nearest']_vars

\* the nearest request was not the first of the queue, and a farther one waits
C6_Witness ==
    /\ pc = "sstf"
    /\ Len(order) >= 1
    /\ requests[1] # order[1]
    /\ \E k \in 1..Len(pending) : Dist(pending[k], Previous) > Dist(nearest, Previous)

(***************************************************************************)
(* C7: cscan returns, for direction left, the requests < head descending   *)
(* followed by the requests >= head descending; for direction right, the   *)
(* requests >= head ascending followed by the requests < head ascending.   *)
(***************************************************************************)
C7_CscanOrder ==
    Returned("C-SCAN") =>
        LET n == IF direction = "left" THEN NumBelow(requests, head)
                 ELSE NumFrom(requests, head)
            first == SubSeq(order, 1, n)
            second == Rest(order, n)
        IN /\ SameMultiset(order, requests)
           /\ direction = "left" =>
                 /\ Descending(first) /\ AllBelow(first, head)
                 /\ Descending(second) /\ AllFrom(second, head)
           /\ direction = "right" =>
                 /\ Ascending(first) /\ AllFrom(first, head)
                 /\ Ascending(second) /\ AllBelow(second, head)

\* both sides of the head hold two different requests
C7_Witness ==
    /\ Returned("C-SCAN")
    /\ direction = "left"
    /\ \E a, b \in Values(requests) : a < b /\ b < head
    /\ \E a, b \in Values(requests) : head <= a /\ a < b

(***************************************************************************)
(* C8: fcfs returns the request queue unchanged, and total = the distance  *)
(* from head to requests[0] plus the distances between consecutive         *)
(* requests; the default queue with head 50 gives 642.                     *)
(***************************************************************************)
C8_Fcfs ==
    Returned("FCFS") =>
        /\ order = requests
        /\ total = PathLength(<<head>> \o requests)
        /\ (requests = DefaultRequests /\ head = 50) => total = 642

C8_Witness ==
    /\ Returned("FCFS")
    /\ requests = <<82, 170, 43, 140, 24, 16, 190>>
    /\ head = 50
    /\ total = 642

(***************************************************************************)
(* C9: the total returned by each of the four algorithms is never          *)
(* negative, for integer requests (negative ones included) and the head    *)
(* positions and disk sizes the widgets supply.                            *)
(***************************************************************************)
C9_NonNegative == pc = "report" => total >= 0

\* the sweep toward 0 passed a negative cylinder before "total += curr"
C9_Witness ==
    /\ pc = "report"
    /\ algos[i] \in {"SCAN", "C-SCAN"}
    /\ direction = "left"
    /\ \E k \in 1..Len(requests) : requests[k] < 0
    /\ \E k \in 1..Len(requests) : requests[k] > head

(***************************************************************************)
(* C10: a run whose request queue is empty, with at least one algorithm    *)
(* selected, does not end in the error outcome: the average is guarded     *)
(* against the empty queue and the summary is produced.                    *)
(***************************************************************************)
C10_EmptyQueueNoError ==
    (~HasJunk(requests_str) /\ ParseRequests(requests_str) = <<>> /\ algos # <<>>)
        => pc # "error"

====
